---- MODULE Spec2Model ----
(***************************************************************************)
(* DXHeatingCoil.py: the defrost-aware capacity / power calculation of an  *)
(* air-source heat pump's outdoor coil, as a state machine.                *)
(*                                                                         *)
(* The script is straight-line code with one two-way branch; every         *)
(* statement of the module body (lines 80-102) is one action and pc is the *)
(* line about to run.  DefrostCalc and the correction curves are pure      *)
(* functions and are operators.                                            *)
(*                                                                         *)
(* Numbers.  Python's floats are modelled as decimal floating-point        *)
(* numbers [m, e] meaning m * 10^e, with an 8-digit significand            *)
(* (m = 0, or 10^7 <= |m| < 10^8) and every operation rounded to nearest,  *)
(* so that every intermediate integer fits the model checker's 32-bit      *)
(* integers.  The psychrometric library (psychrolib) is outside the        *)
(* repository: what it returns is an input of the model.                   *)
(***************************************************************************)
EXTENDS Integers, Sequences, FiniteSets, TLC

----------------------------------------------------------------------------
(* Floating-point arithmetic (Python float +, -, *, /, <, min, max).       *)

MantLo == 10^7
MantHi == 10^8

Zero == [m |-> 0, e |-> 0]

Abs(n) == IF n < 0 THEN -n ELSE n
Sgn(n) == IF n < 0 THEN -1 ELSE IF n > 0 THEN 1 ELSE 0

\* number of decimal digits of a positive integer below 2^31
NDigits(a) ==
    IF a < 10 THEN 1 ELSE IF a < 100 THEN 2 ELSE IF a < 1000 THEN 3
    ELSE IF a < 10^4 THEN 4 ELSE IF a < 10^5 THEN 5 ELSE IF a < 10^6 THEN 6
    ELSE IF a < 10^7 THEN 7 ELSE IF a < 10^8 THEN 8 ELSE IF a < 10^9 THEN 9
    ELSE 10

\* the float nearest to m * 10^e
Norm(m, e) ==
    IF m = 0 THEN Zero
    ELSE LET a == Abs(m)
             n == NDigits(a)
         IN  IF n <= 8
             THEN [m |-> Sgn(m) * a * 10^(8 - n), e |-> e - (8 - n)]
             ELSE LET k == n - 8
                      q == (a + (10^k) \div 2) \div 10^k
                  IN  IF q = MantHi
                      THEN [m |-> Sgn(m) * MantLo, e |-> e + k + 1]
                      ELSE [m |-> Sgn(m) * q, e |-> e + k]

\* a decimal literal of the source: F(758746, -6) is 0.758746
F(m, e) == Norm(m, e)

One == F(1, 0)

Neg(x) == [m |-> -x.m, e |-> IF x.m = 0 THEN 0 ELSE x.e]

Add(x, y) ==
    IF x.m = 0 THEN y
    ELSE IF y.m = 0 THEN x
    ELSE LET hi == IF x.e >= y.e THEN x ELSE y
             lo == IF x.e >= y.e THEN y ELSE x
             d  == hi.e - lo.e
         IN  IF d > 9 THEN hi
             ELSE LET A == hi.m * 10
                      B == IF d = 0 THEN lo.m * 10
                           ELSE Sgn(lo.m) *
                                ((Abs(lo.m) + (10^(d - 1)) \div 2) \div 10^(d - 1))
                  IN  Norm(A + B, hi.e - 1)

Sub(x, y) == Add(x, Neg(y))

Mul(x, y) ==
    IF x.m = 0 \/ y.m = 0 THEN Zero
    ELSE LET s   == Sgn(x.m) * Sgn(y.m)
             a1  == Abs(x.m) \div 10^4
             a0  == Abs(x.m) % 10^4
             b1  == Abs(y.m) \div 10^4
             b0  == Abs(y.m) % 10^4
             mid == a1 * b0 + a0 * b1
             rst == (mid % 10^4) * 10^4 + a0 * b0
             H   == a1 * b1 + mid \div 10^4 + rst \div 10^8
             L   == rst % 10^8
         IN  IF H >= MantLo
             THEN Norm(s * (H + (IF 2 * L >= MantHi THEN 1 ELSE 0)),
                       x.e + y.e + 8)
             ELSE Norm(s * (H * 10 + L \div 10^7
                            + (IF 2 * (L % 10^7) >= 10^7 THEN 1 ELSE 0)),
                       x.e + y.e + 7)

\* k further quotient digits of rem / b, as <<quotient so far, remainder>>
RECURSIVE LongDiv(_, _, _, _)
LongDiv(rem, b, k, acc) ==
    IF k = 0 THEN <<acc, rem>>
    ELSE LongDiv((rem * 10) % b, b, k - 1, acc * 10 + (rem * 10) \div b)

\* x / y for y # 0 (Python raises ZeroDivisionError for y = 0: see the actions)
Div(x, y) ==
    IF x.m = 0 THEN Zero
    ELSE LET s  == Sgn(x.m) * Sgn(y.m)
             a  == Abs(x.m)
             b  == Abs(y.m)
             k  == IF a >= b THEN 7 ELSE 8
             qr == LongDiv(a % b, b, k, a \div b)
             q  == qr[1] + (IF 2 * qr[2] >= b THEN 1 ELSE 0)
         IN  Norm(s * q, x.e - y.e - k)

Lt(x, y) == Sub(x, y).m < 0
Le(x, y) == ~Lt(y, x)
IsNeg(x) == x.m < 0
IsPos(x) == x.m > 0

\* Python's min(a, b) and max(a, b): the first argument unless the second is
\* strictly smaller (larger)
Min(a, b) == IF Lt(b, a) THEN b ELSE a
Max(a, b) == IF Lt(a, b) THEN b ELSE a

----------------------------------------------------------------------------
(* Correction curve library (lines 5-32).                                  *)

\* x ** 2 and x ** 3
Sq(x) == Mul(x, x)
Cube(x) == Mul(Mul(x, x), x)

\* a + b * x + c * x ** 2 + d * x ** 3, evaluated left to right
Cubic(a, b, c, d, x) ==
    Add(Add(Add(a, Mul(b, x)), Mul(c, Sq(x))), Mul(d, Cube(x)))

TotCapTempModFac(Tdb) ==
    Cubic(F(758746, -6), F(27626, -6), F(148716, -9), F(34992, -10), Tdb)

TotCapFlowModFac(FF) ==
    Cubic(F(84, -2), F(16, -2), Zero, Zero, FF)

EERTempModFac(Tdb) ==
    Cubic(F(119248, -5), F(-300438, -7), F(103745, -8), F(-23328, -9), Tdb)

EERFlowModFac(FF) ==
    Cubic(F(13824, -4), F(-4336, -4), F(512, -4), Zero, FF)

PLF_curve(PLR_) == Add(F(85, -2), Mul(F(15, -2), PLR_))

\* a + b*Twbi + c*Twbi**2 + d*Tdb + e*Tdb**2 + f*Twbi*Tdb with a..f = 1,0,0,0,0,0
DefrostEIRTempModFac(Twbi, Tdb) ==
    Add(Add(Add(Add(Add(One, Mul(Zero, Twbi)), Mul(Zero, Sq(Twbi))),
                Mul(Zero, Tdb)), Mul(Zero, Sq(Tdb))),
        Mul(Mul(Zero, Twbi), Tdb))

----------------------------------------------------------------------------
(* Defrost model (lines 34-64).  HumRat and SatHumRat stand for what       *)
(* psychrolib.GetHumRatioFromTWetBulb(Tdbo, Twbo, 98600) and                *)
(* psychrolib.GetSatHumRatio(0.82 * Tdbo - 8.589, 98600) return.           *)
(* tfrac_defrost is <<>> for None and <<v>> for a supplied value v.        *)

NoneArg == <<>>

\* line 50 with the operands of the subtraction exchanged
OutdoorCoildw_Swapped(HumRat, SatHumRat) == Max(F(1, -6), Sub(SatHumRat, HumRat))

\* line 50: max(1e-6, OutdoorHumRat - GetSatHumRatio(...))
OutdoorCoildw(HumRat, SatHumRat) == Max(F(1, -6), Sub(HumRat, SatHumRat))

\* line 53, the denominator 1 + (0.01446 / OutdoorCoildw)
OnDemandDenominator(dw) == Add(One, Div(F(1446, -5), dw))

\* line 53 with 0.01446 * OutdoorCoildw for 0.01446 / OutdoorCoildw
OnDemandFraction_Product(dw) == Div(One, Add(One, Mul(F(1446, -5), dw)))

\* line 53
OnDemandFraction(dw) == Div(One, OnDemandDenominator(dw))

\* lines 58-59 with "if not tfrac_defrost" for "if tfrac_defrost is None"
TimedFraction_Falsy(tfrac_defrost) ==
    IF tfrac_defrost = NoneArg \/ tfrac_defrost = <<Zero>>
    THEN F(58333, -6) ELSE tfrac_defrost[1]

\* lines 58-59: the fraction of the Timed strategy
TimedFraction(tfrac_defrost) ==
    IF tfrac_defrost = NoneArg THEN F(58333, -6) ELSE tfrac_defrost[1]

\* lines 52-64 with the test of line 52 inverted (DemandDefrost != "OnDemand")
DefrostCalc_Inverted(HumRat, SatHumRat, DemandDefrost, tfrac_defrost) ==
    LET dw == OutdoorCoildw(HumRat, SatHumRat)
    IN  IF DemandDefrost # "OnDemand"
        THEN LET t == OnDemandFraction(dw)
             IN  [cap   |-> Mul(F(875, -3), Sub(One, t)),
                  pow   |-> Mul(F(954, -3), Sub(One, t)),
                  tfrac |-> t]
        ELSE [cap   |-> Sub(F(909, -3), Mul(F(10733, -2), dw)),
              pow   |-> Sub(F(9, -1), Mul(F(3645, -2), dw)),
              tfrac |-> TimedFraction(tfrac_defrost)]

\* lines 52-64: (Heating_Capacity_Multiplier, Input_Power_Multiplier, tfrac_defrost)
DefrostCalc(HumRat, SatHumRat, DemandDefrost, tfrac_defrost) ==
    LET dw == OutdoorCoildw(HumRat, SatHumRat)
    IN  IF DemandDefrost = "OnDemand"
        THEN LET t == OnDemandFraction(dw)
             IN  [cap   |-> Mul(F(875, -3), Sub(One, t)),
                  pow   |-> Mul(F(954, -3), Sub(One, t)),
                  tfrac |-> t]
        ELSE [cap   |-> Sub(F(909, -3), Mul(F(10733, -2), dw)),
              pow   |-> Sub(F(9, -1), Mul(F(3645, -2), dw)),
              tfrac |-> TimedFraction(tfrac_defrost)]

----------------------------------------------------------------------------
(* The module body (lines 67-102).                                         *)

VARIABLES
    pc,                          \* the line about to run, "done" or "error"
    branch,                      \* the arm of the if of line 80 taken: "none" before
    OAT, Delivered_Load,         \* changing parameters (lines 68, 71)
    Q_total_rated,               \* equipment rating (line 76)
    psy,                         \* what psychrolib returned for (OAT, Outdoor_WBT)
    calls,                       \* the DemandDefrost argument of every DefrostCalc call
    Input_Power_Multiplier, Heating_capacity_multiplier,
    Q_total, Q_defrost, PLR, PLF, RTF, P_defrost, P_heating,
    stdout,                      \* the numbers printed (lines 100, 102)
    dc_cur, dc_prev              \* DefrostCalc called on its own: the last call, the one before

scriptVars == <<pc, branch, OAT, Delivered_Load, Q_total_rated, psy, calls,
                Input_Power_Multiplier, Heating_capacity_multiplier,
                Q_total, Q_defrost, PLR, PLF, RTF, P_defrost, P_heating, stdout>>
callVars == <<dc_cur, dc_prev>>
vars == <<scriptVars, callVars>>

\* a name that is not bound (yet)
Unbound == [unbound |-> TRUE]

\* bounds of the inputs explored
MaxColdStep == 7
MaxWarmStep == 10
MaxLoadStep == 2
MaxHumStep == 2
MaxHumExp == 5

\* line 68 (2.7) and a 5-degree grid around the defrost threshold
OATs == {F(27, -1)} \cup {F(5 * k, 0) : k \in (-MaxColdStep)..MaxWarmStep}
\* line 71 (175901.2156) and multiples of 1e6
Loads == {F(1759012156, -4)} \cup {F(k, 6) : k \in 0..MaxLoadStep}
\* line 76 (14333.9065) and a unit without capacity
Ratings == {F(143339065, -4), Zero}
\* psychrolib's answers: humidity ratio of the outdoor air, saturation
\* humidity ratio at the coil surface
HumRats == {F(2 * k, -3) : k \in 0..MaxHumStep}
SatHumRats == {F(1, -3), F(3, -3)}

Indoor_WBT == F(121110695, -7)
OAT_max_defrost == F(5, 0)
\* 3.8377982946518, to the nine digits an integer holds
COP_rated == F(383779829, -8)
Sixty == F(60, 0)

\* line 80 with >= for <=
DefrostActive_Reversed(oat) == Le(OAT_max_defrost, oat)

\* line 80 with < for <=
DefrostActive_Strict(oat) == Lt(oat, OAT_max_defrost)

\* line 80
DefrostActive(oat) == Le(oat, OAT_max_defrost)

\* lines 84 and 94
LoadRatio(load, qtotal) == Div(load, Mul(qtotal, Sixty))

\* line 85
ClampedPLR(plr, qdefrost, qtotal) == Min(One, Add(plr, Div(qdefrost, qtotal)))

\* lines 87 and 96 without the min
RuntimeFraction_NoClamp(plr, plf) == Div(plr, plf)

\* lines 87 and 96
RuntimeFraction(plr, plf) == Min(One, Div(plr, plf))

\* line 83
DefrostLoad(tfrac, oat, qrated) ==
    Mul(Mul(Mul(F(1, -2), tfrac), Sub(F(7222, -3), oat)),
        Div(qrated, F(101667, -5)))

\* line 88
DefrostPower(twbi, oat, qrated, tfrac, rtf) ==
    Mul(Mul(Mul(DefrostEIRTempModFac(twbi, oat), Div(qrated, F(101667, -5))),
            tfrac), rtf)

\* lines 82 and 93
TotalCapacity(qrated, oat, capmult) ==
    Mul(Mul(Mul(qrated, TotCapTempModFac(oat)), TotCapFlowModFac(One)), capmult)

\* lines 89 and 97
HeatingPower(qtotal, oat, powmult, rtf) ==
    Mul(Mul(Mul(Mul(Mul(Div(One, COP_rated), qtotal), EERTempModFac(oat)),
                EERFlowModFac(One)), powmult), rtf)

\* DefrostCalc(OAT, Outdoor_WBT, DemandDefrost="OnDemand") once psychrolib answered
Defrost == DefrostCalc(psy.hr, psy.sat, "OnDemand", NoneArg)

Init ==
    /\ pc = "L80"
    /\ branch = "none"
    /\ OAT \in OATs
    /\ Delivered_Load \in Loads
    /\ Q_total_rated \in Ratings
    /\ psy = Unbound
    /\ calls = <<>>
    /\ Input_Power_Multiplier = Unbound
    /\ Heating_capacity_multiplier = Unbound
    /\ Q_total = Unbound
    /\ Q_defrost = Unbound
    /\ PLR = Unbound
    /\ PLF = Unbound
    /\ RTF = Unbound
    /\ P_defrost = Unbound
    /\ P_heating = Unbound
    /\ stdout = <<>>
    /\ dc_cur = Unbound
    /\ dc_prev = Unbound

\* line 80: if OAT <= OAT_max_defrost
Branch ==
    /\ pc = "L80"
    /\ pc' = IF DefrostActive(OAT) THEN "L81" ELSE "L91"
    /\ branch' = IF DefrostActive(OAT) THEN "active" ELSE "inactive"
    /\ UNCHANGED <<OAT, Delivered_Load, Q_total_rated, psy, calls,
                   Input_Power_Multiplier, Heating_capacity_multiplier,
                   Q_total, Q_defrost, PLR, PLF, RTF, P_defrost, P_heating,
                   stdout, callVars>>

\* line 81: the first DefrostCalc call; psychrolib answers
L81 ==
    /\ pc = "L81"
    /\ \E hr \in HumRats, sat \in SatHumRats :
          /\ psy' = [hr |-> hr, sat |-> sat]
          /\ Input_Power_Multiplier' = DefrostCalc(hr, sat, "OnDemand", NoneArg).pow
    /\ calls' = Append(calls, "OnDemand")
    /\ pc' = "L82"
    /\ UNCHANGED <<branch, OAT, Delivered_Load, Q_total_rated,
                   Heating_capacity_multiplier,
                   Q_total, Q_defrost, PLR, PLF, RTF, P_defrost, P_heating,
                   stdout, callVars>>

\* line 81, lines 49-50: psychrolib rejects the temperatures (ValueError)
ProviderError ==
    /\ pc = "L81"
    /\ calls' = Append(calls, "OnDemand")
    /\ pc' = "error"
    /\ UNCHANGED <<branch, OAT, Delivered_Load, Q_total_rated, psy,
                   Input_Power_Multiplier, Heating_capacity_multiplier,
                   Q_total, Q_defrost, PLR, PLF, RTF, P_defrost, P_heating,
                   stdout, callVars>>

L82 ==
    /\ pc = "L82"
    /\ Q_total' = TotalCapacity(Q_total_rated, OAT, Defrost.cap)
    /\ calls' = Append(calls, "OnDemand")
    /\ pc' = "L83"
    /\ UNCHANGED <<branch, OAT, Delivered_Load, Q_total_rated, psy,
                   Input_Power_Multiplier, Heating_capacity_multiplier,
                   Q_defrost, PLR, PLF, RTF, P_defrost, P_heating,
                   stdout, callVars>>

L83 ==
    /\ pc = "L83"
    /\ Q_defrost' = DefrostLoad(Defrost.tfrac, OAT, Q_total_rated)
    /\ calls' = Append(calls, "OnDemand")
    /\ pc' = "L84"
    /\ UNCHANGED <<branch, OAT, Delivered_Load, Q_total_rated, psy,
                   Input_Power_Multiplier, Heating_capacity_multiplier,
                   Q_total, PLR, PLF, RTF, P_defrost, P_heating,
                   stdout, callVars>>

L84 ==
    /\ pc = "L84"
    /\ Mul(Q_total, Sixty) # Zero
    /\ PLR' = LoadRatio(Delivered_Load, Q_total)
    /\ pc' = "L85"
    /\ UNCHANGED <<branch, OAT, Delivered_Load, Q_total_rated, psy, calls,
                   Input_Power_Multiplier, Heating_capacity_multiplier,
                   Q_total, Q_defrost, PLF, RTF, P_defrost, P_heating,
                   stdout, callVars>>

L85 ==
    /\ pc = "L85"
    /\ Q_total # Zero
    /\ PLR' = ClampedPLR(PLR, Q_defrost, Q_total)
    /\ pc' = "L86"
    /\ UNCHANGED <<branch, OAT, Delivered_Load, Q_total_rated, psy, calls,
                   Input_Power_Multiplier, Heating_capacity_multiplier,
                   Q_total, Q_defrost, PLF, RTF, P_defrost, P_heating,
                   stdout, callVars>>

L86 ==
    /\ pc = "L86"
    /\ PLF' = PLF_curve(PLR)
    /\ pc' = "L87"
    /\ UNCHANGED <<branch, OAT, Delivered_Load, Q_total_rated, psy, calls,
                   Input_Power_Multiplier, Heating_capacity_multiplier,
                   Q_total, Q_defrost, PLR, RTF, P_defrost, P_heating,
                   stdout, callVars>>

L87 ==
    /\ pc = "L87"
    /\ PLF # Zero
    /\ RTF' = RuntimeFraction(PLR, PLF)
    /\ pc' = "L88"
    /\ UNCHANGED <<branch, OAT, Delivered_Load, Q_total_rated, psy, calls,
                   Input_Power_Multiplier, Heating_capacity_multiplier,
                   Q_total, Q_defrost, PLR, PLF, P_defrost, P_heating,
                   stdout, callVars>>

L88 ==
    /\ pc = "L88"
    /\ P_defrost' = DefrostPower(Indoor_WBT, OAT, Q_total_rated, Defrost.tfrac, RTF)
    /\ calls' = Append(calls, "OnDemand")
    /\ pc' = "L89"
    /\ UNCHANGED <<branch, OAT, Delivered_Load, Q_total_rated, psy,
                   Input_Power_Multiplier, Heating_capacity_multiplier,
                   Q_total, Q_defrost, PLR, PLF, RTF, P_heating,
                   stdout, callVars>>

L89 ==
    /\ pc = "L89"
    /\ COP_rated # Zero
    /\ P_heating' = HeatingPower(Q_total, OAT, Defrost.pow, RTF)
    /\ calls' = Append(calls, "OnDemand")
    /\ pc' = "L100"
    /\ UNCHANGED <<branch, OAT, Delivered_Load, Q_total_rated, psy,
                   Input_Power_Multiplier, Heating_capacity_multiplier,
                   Q_total, Q_defrost, PLR, PLF, RTF, P_defrost,
                   stdout, callVars>>

L91 ==
    /\ pc = "L91"
    /\ Input_Power_Multiplier' = One
    /\ pc' = "L92"
    /\ UNCHANGED <<branch, OAT, Delivered_Load, Q_total_rated, psy, calls,
                   Heating_capacity_multiplier,
                   Q_total, Q_defrost, PLR, PLF, RTF, P_defrost, P_heating,
                   stdout, callVars>>

L92 ==
    /\ pc = "L92"
    /\ Heating_capacity_multiplier' = One
    /\ pc' = "L93"
    /\ UNCHANGED <<branch, OAT, Delivered_Load, Q_total_rated, psy, calls,
                   Input_Power_Multiplier,
                   Q_total, Q_defrost, PLR, PLF, RTF, P_defrost, P_heating,
                   stdout, callVars>>

L93 ==
    /\ pc = "L93"
    /\ Q_total' = TotalCapacity(Q_total_rated, OAT, Heating_capacity_multiplier)
    /\ pc' = "L94"
    /\ UNCHANGED <<branch, OAT, Delivered_Load, Q_total_rated, psy, calls,
                   Input_Power_Multiplier, Heating_capacity_multiplier,
                   Q_defrost, PLR, PLF, RTF, P_defrost, P_heating,
                   stdout, callVars>>

L94 ==
    /\ pc = "L94"
    /\ Mul(Q_total, Sixty) # Zero
    /\ PLR' = LoadRatio(Delivered_Load, Q_total)
    /\ pc' = "L95"
    /\ UNCHANGED <<branch, OAT, Delivered_Load, Q_total_rated, psy, calls,
                   Input_Power_Multiplier, Heating_capacity_multiplier,
                   Q_total, Q_defrost, PLF, RTF, P_defrost, P_heating,
                   stdout, callVars>>

L95 ==
    /\ pc = "L95"
    /\ PLF' = PLF_curve(PLR)
    /\ pc' = "L96"
    /\ UNCHANGED <<branch, OAT, Delivered_Load, Q_total_rated, psy, calls,
                   Input_Power_Multiplier, Heating_capacity_multiplier,
                   Q_total, Q_defrost, PLR, RTF, P_defrost, P_heating,
                   stdout, callVars>>

L96 ==
    /\ pc = "L96"
    /\ PLF # Zero
    /\ RTF' = RuntimeFraction(PLR, PLF)
    /\ pc' = "L97"
    /\ UNCHANGED <<branch, OAT, Delivered_Load, Q_total_rated, psy, calls,
                   Input_Power_Multiplier, Heating_capacity_multiplier,
                   Q_total, Q_defrost, PLR, PLF, P_defrost, P_heating,
                   stdout, callVars>>

L97 ==
    /\ pc = "L97"
    /\ COP_rated # Zero
    /\ P_heating' = HeatingPower(Q_total, OAT, Input_Power_Multiplier, RTF)
    /\ pc' = "L98"
    /\ UNCHANGED <<branch, OAT, Delivered_Load, Q_total_rated, psy, calls,
                   Input_Power_Multiplier, Heating_capacity_multiplier,
                   Q_total, Q_defrost, PLR, PLF, RTF, P_defrost,
                   stdout, callVars>>

L98 ==
    /\ pc = "L98"
    /\ P_defrost' = Zero
    /\ pc' = "L100"
    /\ UNCHANGED <<branch, OAT, Delivered_Load, Q_total_rated, psy, calls,
                   Input_Power_Multiplier, Heating_capacity_multiplier,
                   Q_total, Q_defrost, PLR, PLF, RTF, P_heating,
                   stdout, callVars>>

\* the divisor of the division the line about to run makes
Divisor ==
    CASE pc \in {"L84", "L94"} -> Mul(Q_total, Sixty)
      [] pc = "L85"            -> Q_total
      [] pc \in {"L87", "L96"} -> PLF
      [] pc \in {"L89", "L97"} -> COP_rated
      [] OTHER                 -> One

\* ZeroDivisionError: the script stops, nothing is printed
ZeroDivisionError ==
    /\ pc \in {"L84", "L85", "L87", "L89", "L94", "L96", "L97"}
    /\ Divisor = Zero
    /\ pc' = "error"
    /\ UNCHANGED <<branch, OAT, Delivered_Load, Q_total_rated, psy, calls,
                   Input_Power_Multiplier, Heating_capacity_multiplier,
                   Q_total, Q_defrost, PLR, PLF, RTF, P_defrost, P_heating,
                   stdout, callVars>>

\* line 100: print(P_heating * 60)
L100 ==
    /\ pc = "L100"
    /\ stdout' = Append(stdout, Mul(P_heating, Sixty))
    /\ pc' = "L102"
    /\ UNCHANGED <<branch, OAT, Delivered_Load, Q_total_rated, psy, calls,
                   Input_Power_Multiplier, Heating_capacity_multiplier,
                   Q_total, Q_defrost, PLR, PLF, RTF, P_defrost, P_heating,
                   callVars>>

\* line 102: print(P_defrost * 60)
L102 ==
    /\ pc = "L102"
    /\ stdout' = Append(stdout, Mul(P_defrost, Sixty))
    /\ pc' = "done"
    /\ UNCHANGED <<branch, OAT, Delivered_Load, Q_total_rated, psy, calls,
                   Input_Power_Multiplier, Heating_capacity_multiplier,
                   Q_total, Q_defrost, PLR, PLF, RTF, P_defrost, P_heating,
                   callVars>>

Next ==
    \/ Branch
    \/ L81 \/ ProviderError
    \/ L82 \/ L83 \/ L84 \/ L85 \/ L86 \/ L87 \/ L88 \/ L89
    \/ L91 \/ L92 \/ L93 \/ L94 \/ L95 \/ L96 \/ L97 \/ L98
    \/ ZeroDivisionError
    \/ L100 \/ L102

Spec == Init /\ [][Next]_vars

----------------------------------------------------------------------------
(* DefrostCalc called on its own, twice, with either strategy and with or  *)
(* without a supplied fraction: the two calls and what they returned.      *)

\* psychrolib's answers explored: 0 and 1e-6 * 10^k
CallHumRats == {Zero} \cup {F(10^k, -6) : k \in 0..MaxHumExp}
CallSatHumRats == {Zero, F(5, -6), F(1, -3)}
Strategies == {"OnDemand", "Timed"}
\* None, 0, 0.033 (the fraction the comment of line 60 names), 1
Fractions == {NoneArg, <<Zero>>, <<F(33, -3)>>, <<One>>}

InitCall ==
    /\ pc = "call1"
    /\ branch = "none"
    /\ OAT = Unbound
    /\ Delivered_Load = Unbound
    /\ Q_total_rated = Unbound
    /\ psy = Unbound
    /\ calls = <<>>
    /\ Input_Power_Multiplier = Unbound
    /\ Heating_capacity_multiplier = Unbound
    /\ Q_total = Unbound
    /\ Q_defrost = Unbound
    /\ PLR = Unbound
    /\ PLF = Unbound
    /\ RTF = Unbound
    /\ P_defrost = Unbound
    /\ P_heating = Unbound
    /\ stdout = <<>>
    /\ dc_cur = Unbound
    /\ dc_prev = Unbound

\* one call DefrostCalc(Tdbo, Twbo, DemandDefrost, tfrac_defrost)
DefrostCall ==
    /\ pc \in {"call1", "call2"}
    /\ pc' = IF pc = "call1" THEN "call2" ELSE "called"
    /\ \E hr \in CallHumRats, sat \in CallSatHumRats,
          mode \in Strategies, tf \in Fractions :
          dc_cur' = [HumRat        |-> hr,
                     SatHumRat     |-> sat,
                     DemandDefrost |-> mode,
                     tfrac_defrost |-> tf,
                     dw            |-> OutdoorCoildw(hr, sat),
                     ret           |-> DefrostCalc(hr, sat, mode, tf)]
    /\ dc_prev' = dc_cur
    /\ UNCHANGED <<branch, OAT, Delivered_Load, Q_total_rated, psy, calls,
                   Input_Power_Multiplier, Heating_capacity_multiplier,
                   Q_total, Q_defrost, PLR, PLF, RTF, P_defrost, P_heating,
                   stdout>>

NextCall == DefrostCall

SpecCall == InitCall /\ [][NextCall]_vars

----------------------------------------------------------------------------
(* The claims.                                                             *)

ActiveLines == {"L81", "L82", "L83", "L84", "L85", "L86", "L87", "L88", "L89"}
InactiveLines == {"L91", "L92", "L93", "L94", "L95", "L96", "L97", "L98"}
\* RTF is bound
AfterRTF == {"L88", "L89", "L97", "L98", "L100", "L102", "done"}
\* P_heating and P_defrost are bound
Reported == {"L100", "L102", "done"}

InUnit(x) == ~IsNeg(x) /\ Le(x, One)
InUnitOpen(x) == IsPos(x) /\ Le(x, One)

\* C1: once RTF is computed, in either branch, the final PLR is <= 1 and RTF
\* is <= 1, also when the delivered load exceeds total capacity x 60.
C1_PLRAndRTFClamped ==
    pc \in AfterRTF => Le(PLR, One) /\ Le(RTF, One)

\* C2: for every OAT strictly above OAT_max_defrost the Defrost-Inactive
\* branch runs: DefrostCalc (and so psychrolib) is never called, both
\* multipliers are 1 once assigned, and the defrost power computed and
\* printed is 0.
C2_InactiveBranch ==
    (pc # "L80" /\ Lt(OAT_max_defrost, OAT)) =>
        /\ branch = "inactive"
        /\ pc \notin ActiveLines
        /\ calls = <<>>
        /\ psy = Unbound
        /\ pc \in (InactiveLines \ {"L91"}) \cup Reported
              => Input_Power_Multiplier = One
        /\ pc \in (InactiveLines \ {"L91", "L92"}) \cup Reported
              => Heating_capacity_multiplier = One
        /\ pc \in Reported => P_defrost = Zero
        /\ pc = "done" => stdout[2] = Zero

C2_Witness ==
    /\ pc = "done"
    /\ Lt(OAT_max_defrost, OAT)
    /\ P_defrost = Zero
    /\ IsPos(P_heating)

\* C3: the threshold of line 80 is inclusive: the Defrost-Active branch is
\* taken exactly when OAT <= OAT_max_defrost (so also at OAT = OAT_max_defrost),
\* the other branch exactly when OAT > OAT_max_defrost; in the active branch
\* every DefrostCalc call uses OnDemand, five calls are made by the end, and
\* PLR is the load ratio plus Q_defrost / Q_total, clamped.
C3_InclusiveThreshold ==
    pc \in ActiveLines \cup InactiveLines \cup Reported =>
        /\ branch \in {"active", "inactive"}
        /\ branch = "active" <=> ~Lt(OAT_max_defrost, OAT)
        /\ branch = "active" <=> pc \in ActiveLines \/ calls # <<>>
        /\ OAT = OAT_max_defrost => branch = "active"
        /\ \A i \in 1..Len(calls) : calls[i] = "OnDemand"
        /\ (branch = "active" /\ pc \in Reported) => Len(calls) = 5
        /\ (branch = "active" /\ pc \in {"L86", "L87"} \cup AfterRTF) =>
              PLR = Min(One, Add(Div(Delivered_Load, Mul(Q_total, Sixty)),
                                 Div(Q_defrost, Q_total)))

C3_Witness ==
    /\ pc = "done"
    /\ OAT = OAT_max_defrost
    /\ branch = "active"
    /\ Len(calls) = 5
    /\ IsPos(Q_defrost)

\* C4: every result reported is non-negative: P_heating >= 0 and
\* P_defrost >= 0, and so are the two numbers printed.
C4_NonNegativeResults ==
    /\ pc \in Reported => ~IsNeg(P_heating) /\ ~IsNeg(P_defrost)
    /\ \A i \in 1..Len(stdout) : ~IsNeg(stdout[i])

\* C5 as stated: whatever the strategy, DefrostCalc returns a capacity
\* multiplier in (0,1], a power multiplier in (0,1] and a fraction in [0,1].
C5_DefrostResultRanges ==
    dc_cur # Unbound =>
        /\ InUnitOpen(dc_cur.ret.cap)
        /\ InUnitOpen(dc_cur.ret.pow)
        /\ InUnit(dc_cur.ret.tfrac)

\* C5 as amended: under OnDemand (humidity differential from 1e-6 to 1) the
\* three ranges hold; under Timed both multipliers are at most 1, the
\* capacity multiplier is positive exactly when 107.33 * dw < 0.909, the power
\* multiplier exactly when 36.45 * dw < 0.9, and the fraction is in [0,1] when
\* it is the default or a supplied value in [0,1].
C5_DefrostResultRanges_Amended ==
    dc_cur # Unbound =>
        IF dc_cur.DemandDefrost = "OnDemand"
        THEN Le(dc_cur.dw, One) =>
                /\ InUnitOpen(dc_cur.ret.cap)
                /\ InUnitOpen(dc_cur.ret.pow)
                /\ InUnit(dc_cur.ret.tfrac)
        ELSE /\ Le(dc_cur.ret.cap, One)
             /\ Le(dc_cur.ret.pow, One)
             /\ IsPos(dc_cur.ret.cap)
                   <=> Lt(Mul(F(10733, -2), dc_cur.dw), F(909, -3))
             /\ IsPos(dc_cur.ret.pow)
                   <=> Lt(Mul(F(3645, -2), dc_cur.dw), F(9, -1))
             /\ (dc_cur.tfrac_defrost = NoneArg
                   \/ InUnit(dc_cur.tfrac_defrost[1]))
                   => InUnit(dc_cur.ret.tfrac)

C5_Witness ==
    /\ dc_prev # Unbound
    /\ dc_prev.DemandDefrost = "OnDemand"
    /\ InUnitOpen(dc_prev.ret.cap)
    /\ dc_cur.DemandDefrost = "Timed"
    /\ IsNeg(dc_cur.ret.cap)
    /\ IsNeg(dc_cur.ret.pow)

\* C6: whenever the PLR the runtime fraction is computed from is >= 0, in
\* either branch, PLF = PLF_curve(PLR) is > 0 and RTF = min(1, PLR / PLF) is
\* >= 0 and <= 1.
C6_RTFInUnitInterval ==
    (pc \in AfterRTF /\ ~IsNeg(PLR)) =>
        /\ PLF = PLF_curve(PLR)
        /\ IsPos(PLF)
        /\ ~IsNeg(RTF)
        /\ Le(RTF, One)

C6_Witness ==
    /\ pc = "done"
    /\ Lt(One, PLR)
    /\ Lt(One, Div(PLR, PLF))
    /\ RTF = One

C9_NonPositiveCapacityFatal ==
    (Q_total # Unbound /\ ~IsPos(Q_total)) =>
        /\ pc \in {"L83", "L84", "L94", "error"}
        /\ stdout = <<>>

\* C10: in DefrostCalc OutdoorCoildw is at least 1e-6 whatever psychrolib
\* returns: the difference of the two humidity ratios when that exceeds 1e-6
\* and 1e-6 otherwise; so 0.01446 / OutdoorCoildw divides by a positive
\* number and the denominator 1 + 0.01446 / OutdoorCoildw is > 1.
C10_HumidityDifferentialFloor ==
    dc_cur # Unbound =>
        LET diff == Sub(dc_cur.HumRat, dc_cur.SatHumRat)
        IN  /\ Le(F(1, -6), dc_cur.dw)
            /\ Lt(F(1, -6), diff) => dc_cur.dw = diff
            /\ Le(diff, F(1, -6)) => dc_cur.dw = F(1, -6)
            /\ IsPos(dc_cur.dw)
            /\ Lt(One, OnDemandDenominator(dc_cur.dw))

C10_Witness ==
    /\ dc_prev # Unbound
    /\ IsNeg(Sub(dc_prev.HumRat, dc_prev.SatHumRat))
    /\ dc_prev.dw = F(1, -6)
    /\ dc_prev.DemandDefrost = "OnDemand"
    /\ Lt(F(1, -6), Sub(dc_cur.HumRat, dc_cur.SatHumRat))
    /\ dc_cur.dw = Sub(dc_cur.HumRat, dc_cur.SatHumRat)
    /\ dc_cur.DemandDefrost = "OnDemand"

====
